---- MODULE Spec2Model ----
(***************************************************************************)
(* A model of src/analyze.js: the project analyser of scratch-analysis.    *)
(* The functions of the file (flatten, extract, sprites, frequency,        *)
(* blocks/walk, extensions and the exported analyser) are operators over   *)
(* an encoding of JavaScript values; the actions call them on documents    *)
(* drawn from bounded sets and record each call's outcome.                 *)
(***************************************************************************)
EXTENDS Integers, Sequences, FiniteSets, TLC

VARIABLES
    heap,   \* the caller's objects by address; heap[1] is the project document
    log     \* the calls made so far, each with its arguments and its outcome

vars == <<heap, log>>

(***************************************************************************)
(* JavaScript values.  Every value is a record of one shape:               *)
(*   t  the type tag, s  a string payload, n  a numeric payload,           *)
(*   a  the parts (an array's elements, an object's properties, a          *)
(*      property's value).                                                 *)
(* An object's s names its prototype; its properties are kept in the       *)
(* order in which the engine enumerates own keys.                          *)
(***************************************************************************)
Val(t, s, n, a) == [t |-> t, s |-> s, n |-> n, a |-> a]

Undef == Val("undefined", "", 0, <<>>)
Null == Val("null", "", 0, <<>>)
Str(x) == Val("string", x, 0, <<>>)
Num(k) == Val("number", "", k, <<>>)
NaN == Val("number", "NaN", 0, <<>>)
Bool(b) == Val("boolean", "", IF b THEN 1 ELSE 0, <<>>)
Fun(name) == Val("function", name, 0, <<>>)
Arr(xs) == Val("array", "", 0, xs)
Prop(k, v) == Val("prop", k, 0, <<v>>)
Obj(props) == Val("object", "Object.prototype", 0, props)

\* a thrown TypeError, propagated in place of a value
TypeError == Val("throw", "TypeError", 0, <<>>)
IsThrow(v) == v.t = "throw"

\* the names every ordinary object inherits from Object.prototype
ObjectPrototypeKeys ==
    {"constructor", "hasOwnProperty", "toString", "valueOf", "isPrototypeOf"}

\* the literal {}: an object that inherits from Object.prototype
ObjectLiteral == Obj(<<>>)

\* Object.create(null): an object with no prototype
ObjectCreateNull == Val("object", "null", 0, <<>>)

\* the position of own property k among v's properties, 0 when it has none
RECURSIVE KeyIndexFrom(_, _, _)
KeyIndexFrom(props, k, i) ==
    IF i > Len(props) THEN 0
    ELSE IF props[i].s = k THEN i
    ELSE KeyIndexFrom(props, k, i + 1)

KeyIndex(v, k) == KeyIndexFrom(v.a, k, 1)

\* v.hasOwnProperty(k)
HasOwn(v, k) ==
    IF v.t \in {"undefined", "null"} THEN TypeError
    ELSE Bool(v.t = "object" /\ KeyIndex(v, k) > 0)

\* the member access v[k], k a property name that is no array index
GetProp(v, k) ==
    CASE v.t \in {"undefined", "null"} -> TypeError
      [] v.t = "object" ->
            IF KeyIndex(v, k) > 0 THEN v.a[KeyIndex(v, k)].a[1]
            ELSE IF v.s = "Object.prototype" /\ k \in ObjectPrototypeKeys
                 THEN Fun(k)
                 ELSE Undef
      [] v.t \in {"number", "boolean", "array", "function"} -> Undef

\* the canonical array index a property name denotes, -1 when it denotes
\* none ("01" and "1.0" are ordinary names): the names of the model's alphabet
ArrayIndexValue(k) ==
    CASE k = "0" -> 0
      [] k = "2" -> 2
      [] k = "10" -> 10
      [] OTHER -> -1

IsArrayIndex(k) == ArrayIndexValue(k) >= 0

\* where a new own property k goes: array indices first, in ascending
\* numeric order, then the other names in the order of their creation
RECURSIVE InsertAt(_, _, _)
InsertAt(props, k, i) ==
    IF i > Len(props) THEN i
    ELSE IF ~IsArrayIndex(k) THEN Len(props) + 1
    ELSE IF ~IsArrayIndex(props[i].s) THEN i
    ELSE IF ArrayIndexValue(props[i].s) > ArrayIndexValue(k) THEN i
    ELSE InsertAt(props, k, i + 1)

\* the assignment o[k] = v on an object
SetOwn(o, k, v) ==
    IF KeyIndex(o, k) > 0
    THEN [o EXCEPT !.a = [@ EXCEPT ![KeyIndex(o, k)] = Prop(k, v)]]
    ELSE [o EXCEPT !.a = SubSeq(@, 1, InsertAt(@, k, 1) - 1) \o <<Prop(k, v)>>
                           \o SubSeq(@, InsertAt(@, k, 1), Len(@))]

\* (here and below, a value bound by `x \in {e}` is e evaluated once)
SetProp(o, k, v) == CHOOSE r \in {SetOwn(x, k, y) : x \in {o}, y \in {v}} : TRUE

\* Object.keys(o): the own keys in enumeration order
RECURSIVE KeysOf(_)
KeysOf(props) ==
    IF props = <<>> THEN <<>> ELSE <<Head(props).s>> \o KeysOf(Tail(props))

ObjectKeys(o) == KeysOf(o.a)

\* the values v[i] a `for (var i in v)` loop visits, in order
RECURSIVE PropValues(_)
PropValues(props) ==
    IF props = <<>> THEN <<>>
    ELSE <<Head(props).a[1]>> \o PropValues(Tail(props))

ForIn(v) ==
    CASE v.t = "array" -> v.a
      [] v.t = "object" -> PropValues(v.a)
      [] v.t \in {"undefined", "null", "number", "boolean"} -> <<>>

\* v.length
Length(v) ==
    CASE v.t = "array" -> Num(Len(v.a))
      [] v.t \in {"undefined", "null"} -> TypeError
      [] v.t \in {"number", "boolean", "object"} -> Undef

\* x++ on the value x
Incr(x) == IF x.t = "number" /\ x.s = "" THEN Num(x.n + 1) ELSE NaN

(***************************************************************************)
(* flatten (lines 7-25).  The run carries the project along: result is     *)
(* first the project's own array (line 13, the same object, `aliased`),    *)
(* and concat (line 20) returns a new array, leaving that one as it was.   *)
(***************************************************************************)
FlattenSeed(project, attribute) ==
    IF GetProp(project, attribute).t # "undefined"
    THEN [result |-> GetProp(project, attribute), aliased |-> TRUE,
          project |-> project, attribute |-> attribute]
    ELSE [result |-> Arr(<<>>), aliased |-> FALSE,
          project |-> project, attribute |-> attribute]

\* result.push(...x): writes through to the project while result is its array
PushStep(st, x) ==
    LET grown == Arr(st.result.a \o (IF x.t = "array" THEN x.a ELSE <<x>>))
    IN  IF st.result.t # "array" THEN [st EXCEPT !.result = TypeError]
        ELSE [st EXCEPT !.result = grown,
                        !.project = IF st.aliased
                                    THEN SetProp(@, st.attribute, grown)
                                    ELSE @]

\* x.concat(result): the child's items before the ones gathered so far
PrependStep(st, x) ==
    IF st.result.t # "array" THEN [st EXCEPT !.result = TypeError]
    ELSE [st EXCEPT !.result =
                        Arr((IF x.t = "array" THEN x.a ELSE <<x>>) \o @.a),
                    !.aliased = FALSE]

\* line 20: result = result.concat(x)
ConcatStep(st, x) ==
    CASE st.result.t = "array" ->
            [st EXCEPT !.result =
                           Arr(@.a \o (IF x.t = "array" THEN x.a ELSE <<x>>)),
                       !.aliased = FALSE]
      [] st.result.t \in {"null", "number", "boolean", "object"} ->
            [st EXCEPT !.result = TypeError]

\* lines 18-21: one child; nothing more happens once an access has thrown
FlattenChild(st, child) ==
    IF IsThrow(st.result) THEN st
    ELSE IF IsThrow(GetProp(child, st.attribute))
         THEN [st EXCEPT !.result = TypeError]
    ELSE IF GetProp(child, st.attribute).t # "undefined"
         THEN ConcatStep(st, GetProp(child, st.attribute))
    ELSE st

\* lines 17-22: the loop over project.children
RECURSIVE FlattenChildren(_, _, _)
FlattenChildren(st, kids, i) ==
    IF i > Len(kids) THEN st
    ELSE FlattenChildren(
             CHOOSE r \in {FlattenChild(x, kids[i]) : x \in {st}} : TRUE,
             kids, i + 1)

FlattenRun(project, attribute) ==
    CHOOSE r \in {FlattenChildren(FlattenSeed(p, attribute),
                                  ForIn(GetProp(p, "children")), 1)
                      : p \in {project}} : TRUE

flatten(project, attribute) == FlattenRun(project, attribute).result

(***************************************************************************)
(* extract (lines 36-66)                                                   *)
(***************************************************************************)
\* lines 45-47 with every element lacking the field left out
RECURSIVE PluckPresent(_, _)
PluckPresent(elements, key) ==
    IF elements = <<>> THEN <<>>
    ELSE IF GetProp(Head(elements), key).t = "undefined"
         THEN PluckPresent(Tail(elements), key)
         ELSE <<GetProp(Head(elements), key)>>
                  \o PluckPresent(Tail(elements), key)

\* lines 45-47 and 53-55: push elements[x][key] for every x in elements
RECURSIVE Pluck(_, _)
Pluck(elements, key) ==
    IF elements = <<>> THEN <<>>
    ELSE <<GetProp(Head(elements), key)>> \o Pluck(Tail(elements), key)

\* a list built by Pluck, or the TypeError one of its accesses threw
Plucked(elements, key) ==
    IF \E i \in 1..Len(ForIn(elements)) :
           IsThrow(GetProp(ForIn(elements)[i], key.s))
    THEN TypeError
    ELSE Arr(Pluck(ForIn(elements), key.s))

ExtractSummary(elements, id, hash) ==
    LET idList == IF id.t # "undefined" THEN Plucked(elements, id) ELSE Null
        hashList == IF hash.t # "undefined" THEN Plucked(elements, hash)
                    ELSE Null
        r0 == SetProp(Obj(<<>>), "count", Length(elements))
        r1 == IF idList.t # "null" THEN SetProp(r0, "id", idList) ELSE r0
        r2 == IF hashList.t # "null" THEN SetProp(r1, "hash", hashList) ELSE r1
    IN  IF IsThrow(idList) \/ IsThrow(hashList) \/ IsThrow(Length(elements))
        THEN TypeError
        ELSE r2

ExtractRun(project, attribute, id, hash) ==
    CHOOSE r \in {[ret |-> IF IsThrow(f.result) THEN TypeError
                           ELSE ExtractSummary(f.result, id, hash),
                   project |-> f.project]
                      : f \in {FlattenRun(project, attribute)}} : TRUE

extract(project, attribute, id, hash) ==
    ExtractRun(project, attribute, id, hash).ret

(***************************************************************************)
(* sprites (lines 74-82)                                                   *)
(***************************************************************************)
RECURSIVE CountSprites(_, _)
CountSprites(kids, result) ==
    IF kids = <<>> THEN Num(result)
    ELSE IF IsThrow(HasOwn(Head(kids), "spriteInfo")) THEN TypeError
    ELSE CountSprites(Tail(kids),
                      IF HasOwn(Head(kids), "spriteInfo").n = 1
                      THEN result + 1 ELSE result)

sprites(input) ==
    LET n == CountSprites(ForIn(GetProp(input, "children")), 0)
    IN  IF IsThrow(n) THEN TypeError ELSE SetProp(Obj(<<>>), "count", n)

(***************************************************************************)
(* frequency (lines 89-99); the terms are strings                          *)
(***************************************************************************)
\* lines 93-95 for one term
Tally(result, term) ==
    LET r0 == IF GetProp(result, term.s).t = "undefined"
              THEN SetProp(result, term.s, Num(0))
              ELSE result
    IN  SetProp(r0, term.s, Incr(GetProp(r0, term.s)))

RECURSIVE TallyAll(_, _)
TallyAll(result, terms) ==
    IF terms = <<>> THEN result
    ELSE TallyAll(CHOOSE r \in {Tally(x, Head(terms)) : x \in {result}} : TRUE,
                  Tail(terms))

frequency(input) == TallyAll(ObjectCreateNull, ForIn(input))

(***************************************************************************)
(* blocks and its walk (lines 106-148); result is the list the walk        *)
(* pushes block names onto                                                 *)
(***************************************************************************)
\* stack[i][0]
First(item) == IF item.a = <<>> THEN Undef ELSE item.a[1]

\* line 121: the item is a block when its first entry is a string
IsBlock(item) == First(item).t = "string"

\* procedure parameters taken for nested blocks: no block is cut short
WalksParams(name) == FALSE

\* line 130: the parameters of a procedure definition are not walked
SkipsParams(name) == name = "procDef"

\* stack[i].slice(2): the block's first argument left out as well
RestAfterFirst(item) == Arr(SubSeq(item.a, 3, Len(item.a)))

\* line 133: stack[i].slice(1)
Rest(item) == Arr(Tail(item.a))

RECURSIVE walkFrom(_, _, _)
walkFrom(stack, i, result) ==
    IF i > Len(ForIn(stack)) THEN result
    ELSE LET item == ForIn(stack)[i]
         IN  IF item.t # "array" THEN walkFrom(stack, i + 1, result)
             ELSE IF ~IsBlock(item)
                  THEN walkFrom(stack, i + 1, walkFrom(item, 1, result))
             ELSE IF SkipsParams(First(item).s)
                  THEN walkFrom(stack, i + 1, Append(result, First(item)))
             ELSE walkFrom(stack, i + 1,
                           walkFrom(Rest(item), 1,
                                    Append(result, First(item))))

walk(stack) == walkFrom(stack, 1, <<>>)

\* lines 139-147
BlocksSummary(result) ==
    CHOOSE r \in
        { SetProp(SetProp(SetProp(SetProp(Obj(<<>>),
              "count", Num(Len(result))),
              "unique", Num(Len(ObjectKeys(freq)))),
              "id", Arr(result)),
              "frequency", freq)
          : freq \in {frequency(Arr(result))} } : TRUE

BlocksRun(project) ==
    CHOOSE r \in
        { [ret |-> IF IsThrow(f.result) THEN TypeError
                   ELSE CHOOSE b \in {BlocksSummary(ids)
                                         : ids \in {walk(f.result)}} : TRUE,
           project |-> f.project]
          : f \in {FlattenRun(project, "scripts")} } : TRUE

blocks(project) == BlocksRun(project).ret

(***************************************************************************)
(* extensions (lines 155-170)                                              *)
(***************************************************************************)
extensions(project) ==
    LET info == GetProp(project, "info")
        ext == GetProp(info, "savedExtensions")
        names == Plucked(ext, Str("extensionName"))
    IN  IF IsThrow(ext) THEN TypeError
        ELSE IF ext.t = "undefined"
             THEN SetProp(SetProp(Obj(<<>>), "count", Num(0)), "id", Arr(<<>>))
        ELSE IF IsThrow(names) THEN TypeError
        ELSE SetProp(SetProp(Obj(<<>>), "count", Num(Len(names.a))),
                     "id", names)

(***************************************************************************)
(* The exported analyser (lines 178-201)                                   *)
(***************************************************************************)
\* lines 181-186: the key of the summary, the attribute and the two fields
ExtractTable ==
    << [key |-> "scripts", attribute |-> "scripts",
        id |-> Undef, hash |-> Undef],
       [key |-> "variables", attribute |-> "variables",
        id |-> Str("name"), hash |-> Undef],
       [key |-> "lists", attribute |-> "lists",
        id |-> Str("listName"), hash |-> Undef],
       [key |-> "comments", attribute |-> "scriptComments",
        id |-> Undef, hash |-> Undef],
       [key |-> "sounds", attribute |-> "sounds",
        id |-> Str("soundName"), hash |-> Str("md5")],
       [key |-> "costumes", attribute |-> "costumes",
        id |-> Str("costumeName"), hash |-> Str("baseLayerMD5")] >>

\* one more property of meta, or the TypeError its computation threw
WithSummary(st, key, run) ==
    [meta |-> IF IsThrow(run.ret) THEN TypeError
              ELSE SetProp(st.meta, key, run.ret),
     project |-> run.project]

\* one of lines 181-186; nothing more happens once a call has thrown
ExtractEntry(st, entry) ==
    IF IsThrow(st.meta) THEN st
    ELSE CHOOSE r \in
             { WithSummary(st, entry.key, run)
               : run \in {ExtractRun(st.project, entry.attribute,
                                     entry.id, entry.hash)} } : TRUE

RECURSIVE ExtractAll(_, _)
ExtractAll(st, i) ==
    IF i > Len(ExtractTable) THEN st
    ELSE ExtractAll(
             CHOOSE r \in {ExtractEntry(x, ExtractTable[i]) : x \in {st}} : TRUE,
             i + 1)

\* line 190
SpritesEntry(st) ==
    IF IsThrow(st.meta) THEN st
    ELSE CHOOSE r \in
             { WithSummary(st, "sprites", [ret |-> v, project |-> st.project])
               : v \in {sprites(st.project)} } : TRUE

\* line 193
BlocksEntry(st) ==
    IF IsThrow(st.meta) THEN st
    ELSE CHOOSE r \in { WithSummary(st, "blocks", run)
                        : run \in {BlocksRun(st.project)} } : TRUE

\* line 196
ExtensionsEntry(st) ==
    IF IsThrow(st.meta) THEN st
    ELSE CHOOSE r \in
             { WithSummary(st, "extensions",
                           [ret |-> v, project |-> st.project])
               : v \in {extensions(st.project)} } : TRUE

\* lines 180-196: meta, and the project as the calls leave it
AnalyzeRun(project) ==
    CHOOSE r \in
        { ExtensionsEntry(s3)
          : s3 \in { BlocksEntry(s2)
              : s2 \in { SpritesEntry(s1)
                  : s1 \in {ExtractAll([meta |-> Obj(<<>>),
                                        project |-> project], 1)} } } } : TRUE

\* module.exports(project, callback), project the object at addr: an
\* exception leaves the function before line 199; otherwise line 199 sets
\* project._meta and line 200 calls callback(null, project)
analyze(h, addr) ==
    CHOOSE out \in
        { IF IsThrow(r.meta)
          THEN [heap |-> [h EXCEPT ![addr] = r.project],
                outcome |-> "throw", err |-> TypeError, doc |-> 0]
          ELSE [heap |-> [h EXCEPT ![addr] =
                                      SetProp(r.project, "_meta", r.meta)],
                outcome |-> "callback", err |-> Null, doc |-> addr]
          : r \in {AnalyzeRun(h[addr])} } : TRUE

(***************************************************************************)
(* The documents the calls are made on                                     *)
(***************************************************************************)
MaxElems == 2
MaxChildren == 2
MaxNodes == 4
MaxTerms == 3
MaxCalls == 2

SeqsUpTo(S, n) == UNION {[1..k -> S] : k \in 0..n}

\* an object literal: the properties given, those without a value left out
RECURSIVE ObjOf(_)
ObjOf(props) ==
    IF props = <<>> THEN Obj(<<>>)
    ELSE LET o == ObjOf(SubSeq(props, 1, Len(props) - 1))
             p == props[Len(props)]
         IN  IF p.a[1].t = "undefined" THEN o ELSE SetProp(o, p.s, p.a[1])

\* documents with sounds: a list s of at most MaxElems sounds cut at c into
\* the root's part and the parts of n children; a container with no sound
\* has an empty list or (in absent) no list; the first child may have a
\* child of its own (deep)
SoundElems ==
    { Obj(<<Prop("soundName", Str("pop")), Prop("md5", Str("aa"))>>),
      Obj(<<Prop("soundName", Str("meow"))>>),
      Obj(<<Prop("md5", Str("bb"))>>) }

GrandSound == Obj(<<Prop("soundName", Str("deep")), Prop("md5", Str("cc"))>>)

Part(s, n, c, i) ==
    SubSeq(s, IF i = 0 THEN 1 ELSE c[i] + 1,
              IF i = n THEN Len(s) ELSE c[i + 1])

SoundShapes ==
    { p \in SeqsUpTo(SoundElems, MaxElems) \X (0..MaxChildren)
              \X [1..MaxChildren -> 0..MaxElems] \X (SUBSET (0..MaxChildren))
              \X BOOLEAN :
        /\ \A i \in 1..MaxChildren :
              /\ p[3][i] <= Len(p[1])
              /\ i > p[2] => p[3][i] = 0
              /\ i < p[2] => p[3][i] <= p[3][i + 1]
        /\ \A i \in p[4] : i <= p[2] /\ Part(p[1], p[2], p[3], i) = <<>>
        /\ p[5] => p[2] > 0 }

SoundList(p, i) ==
    IF i \in p[4] THEN Undef ELSE Arr(Part(p[1], p[2], p[3], i))

SoundChild(p, i) ==
    ObjOf(<< Prop("objName", Str("Sprite")),
             Prop("sounds", SoundList(p, i)),
             Prop("children",
                  IF p[5] /\ i = 1
                  THEN Arr(<<ObjOf(<<Prop("sounds", Arr(<<GrandSound>>))>>)>>)
                  ELSE Undef) >>)

SoundDoc(p) ==
    ObjOf(<< Prop("objName", Str("Stage")),
             Prop("sounds", SoundList(p, 0)),
             Prop("children",
                  IF p[2] = 0 THEN Undef
                  ELSE Arr([i \in 1..p[2] |-> SoundChild(p, i)])) >>)

SoundDocs == {SoundDoc(p) : p \in SoundShapes}

\* script forests of at most MaxNodes entries, listed by their number of
\* entries, and the two scripts the specification names
AtomList == <<Str("procDef"), Str("a"), Num(10)>>

\* the entries of k nodes, given the forests of fewer nodes: table[j + 1]
\* lists the forests of j nodes
TreesOfSize(table, k) ==
    (IF k = 1 THEN AtomList ELSE <<>>)
        \o [i \in 1..Len(table[k]) |-> Arr(table[k][i])]

\* every entry of ts put before every forest of fs
Pairs(ts, fs) ==
    CHOOSE r \in
        { [i \in 1..(Len(x) * Len(y)) |->
               <<x[((i - 1) \div Len(y)) + 1]>> \o y[((i - 1) % Len(y)) + 1]]
          : x \in {ts}, y \in {fs} } : TRUE

RECURSIVE ForestsFrom(_, _, _)
ForestsFrom(table, n, k) ==
    IF k > n THEN <<>>
    ELSE Pairs(TreesOfSize(table, k), table[n - k + 1])
             \o ForestsFrom(table, n, k + 1)

RECURSIVE ForestTable(_)
ForestTable(n) ==
    IF n = 0 THEN << <<(<<>>)>> >>
    ELSE CHOOSE r \in { Append(table, ForestsFrom(table, n, 1))
                        : table \in {ForestTable(n - 1)} } : TRUE

ForeverScript ==
    Arr(<< Str("forever"), Arr(<<Str("moveSteps"), Num(10)>>),
           Arr(<<Str("turnRight"), Num(15)>>) >>)

ProcDefScript ==
    Arr(<< Str("procDef"), Str("name"), Arr(<<Str("param1")>>),
           Arr(<<Bool(TRUE)>>), Bool(FALSE) >>)

ForestLists == ForestTable(MaxNodes)

NamedForests ==
    {<<ForeverScript>>, <<ProcDefScript>>, <<ProcDefScript, ForeverScript>>}

ScriptForests ==
    { ForestLists[p[1] + 1][p[2]]
      : p \in { q \in (0..MaxNodes) \X (1..Len(ForestLists[MaxNodes + 1]))
                : q[2] <= Len(ForestLists[q[1] + 1]) } }

\* a forest f as the scripts of the root (the cut c at Len(f) + 1), of a
\* child (at -1), or of both, cut at c
ScriptDoc(f, c) ==
    IF c = Len(f) + 1 THEN ObjOf(<<Prop("scripts", Arr(f))>>)
    ELSE ObjOf(<< Prop("scripts",
                       IF c < 0 THEN Undef ELSE Arr(SubSeq(f, 1, c))),
                  Prop("children",
                       Arr(<<ObjOf(<<Prop("scripts",
                                Arr(SubSeq(f, IF c < 0 THEN 1 ELSE c + 1,
                                           Len(f))))>>)>>)) >>)

ScriptDocs ==
    { ScriptDoc(p[1], p[2])
      : p \in { q \in ScriptForests \X (-1..(MaxNodes + 1))
                : q[2] <= Len(q[1]) + 1 } }
        \cup { ScriptDoc(p[1], p[2])
               : p \in { q \in NamedForests \X (-1..3)
                         : q[2] <= Len(q[1]) + 1 } }

\* lists of at most MaxTerms strings
Terms == {"a", "b", "2", "10", "constructor"}

TermLists == {Arr([i \in DOMAIN q |-> Str(q[i])]) : q \in SeqsUpTo(Terms, MaxTerms)}

\* whole documents, some of them not of the expected shape
Sprite ==
    ObjOf(<< Prop("objName", Str("Sprite1")),
             Prop("scripts", Arr(<<Arr(<<Num(10), Num(20),
                                         Arr(<<Arr(<<Str("b")>>)>>)>>)>>)),
             Prop("sounds", Arr(<<GrandSound>>)),
             Prop("spriteInfo", Obj(<<>>)) >>)

Watcher == ObjOf(<<Prop("target", Str("Sprite1")), Prop("cmd", Str("getVar:"))>>)

ChildrenChoices ==
    {Undef, Arr(<<>>), Arr(<<Sprite>>), Arr(<<Sprite, Watcher>>),
     Num(5), Bool(TRUE), Arr(<<Null>>), Arr(<<Sprite, Null>>)}

InfoChoices ==
    {Undef, Null, Obj(<<>>),
     ObjOf(<<Prop("savedExtensions",
                  Arr(<<ObjOf(<<Prop("extensionName", Str("PicoBoard"))>>)>>))>>)}

ScriptsChoices ==
    {Undef, Arr(<<Arr(<<Str("a"), Arr(<<Str("b"), Num(10)>>)>>)>>)}

MetaChoices == {Undef, Str("stale")}

AnalyzeDocs ==
    { ObjOf(<< Prop("objName", Str("Stage")),
               Prop("scripts", sc),
               Prop("children", ch),
               Prop("info", info),
               Prop("_meta", meta) >>)
      : sc \in ScriptsChoices, ch \in ChildrenChoices,
        info \in InfoChoices, meta \in MetaChoices }

(***************************************************************************)
(* The calls                                                               *)
(***************************************************************************)
Entry(fn, args, before, outcome, ret, err, doc) ==
    [fn |-> fn, args |-> args, before |-> before, outcome |-> outcome,
     ret |-> ret, err |-> err, doc |-> doc]

Outcome(v) == IF IsThrow(v) THEN "throw" ELSE "return"

CallFlatten(attribute) ==
    /\ log = <<>>
    /\ \E r \in {FlattenRun(heap[1], attribute)} :
           /\ heap' = [heap EXCEPT ![1] = r.project]
           /\ log' = <<Entry("flatten", <<Str(attribute)>>, heap[1],
                             Outcome(r.result), r.result, Undef, 0)>>

CallExtract(attribute, id, hash) ==
    /\ log = <<>>
    /\ \E r \in {ExtractRun(heap[1], attribute, id, hash)} :
           /\ heap' = [heap EXCEPT ![1] = r.project]
           /\ log' = <<Entry("extract", <<Str(attribute), id, hash>>, heap[1],
                             Outcome(r.ret), r.ret, Undef, 0)>>

CallSprites ==
    /\ log = <<>>
    /\ heap' = heap
    /\ \E r \in {sprites(heap[1])} :
           log' = <<Entry("sprites", <<>>, heap[1], Outcome(r), r, Undef, 0)>>

CallFrequency ==
    /\ log = <<>>
    /\ heap' = heap
    /\ \E r \in {frequency(heap[1])} :
           log' = <<Entry("frequency", <<>>, heap[1], "return", r, Undef, 0)>>

CallBlocks ==
    /\ log = <<>>
    /\ \E r \in {BlocksRun(heap[1])} :
           /\ heap' = [heap EXCEPT ![1] = r.project]
           /\ log' = <<Entry("blocks", <<>>, heap[1], Outcome(r.ret), r.ret,
                             Undef, 0)>>

CallExtensions ==
    /\ log = <<>>
    /\ heap' = heap
    /\ \E r \in {extensions(heap[1])} :
           log' = <<Entry("extensions", <<>>, heap[1], Outcome(r), r,
                          Undef, 0)>>

\* the caller analyses its document, again after the call has come back;
\* ret is the document's _meta as the call leaves it
CallAnalyze ==
    /\ Len(log) < MaxCalls
    /\ \A i \in 1..Len(log) : log[i].fn = "analyze"
    /\ \E r \in {analyze(heap, 1)} :
           /\ heap' = r.heap
           /\ log' = Append(log,
                  Entry("analyze", <<>>, heap[1], r.outcome,
                        IF r.outcome = "callback"
                        THEN GetProp(r.heap[r.doc], "_meta") ELSE Undef,
                        r.err, r.doc))

InitExtract == heap \in {<<d>> : d \in SoundDocs} /\ log = <<>>
NextExtract ==
    \/ \E attribute \in {"sounds", "costumes"} : CallFlatten(attribute)
    \/ \E attribute \in {"sounds", "costumes"},
          id \in {Undef, Str("soundName")}, hash \in {Undef, Str("md5")} :
          CallExtract(attribute, id, hash)
SpecExtract == InitExtract /\ [][NextExtract]_vars

InitBlocks == heap \in {<<d>> : d \in ScriptDocs} /\ log = <<>>
NextBlocks == CallBlocks \/ CallFlatten("scripts")
SpecBlocks == InitBlocks /\ [][NextBlocks]_vars

InitFrequency == heap \in {<<d>> : d \in TermLists} /\ log = <<>>
NextFrequency == CallFrequency
SpecFrequency == InitFrequency /\ [][NextFrequency]_vars

Init == heap \in {<<d>> : d \in AnalyzeDocs} /\ log = <<>>
Next == CallAnalyze \/ CallExtensions \/ CallSprites
Spec == Init /\ [][Next]_vars

(***************************************************************************)
(* The claims.  A call's entry in the log holds the document before the    *)
(* call (before), the arguments, how the call ended and what it returned.  *)
(***************************************************************************)
\* whether object o has own property k, and the property's value
Has(o, k) == \E i \in 1..Len(o.a) : o.a[i].s = k
ValueOf(o, k) == o.a[CHOOSE i \in 1..Len(o.a) : o.a[i].s = k].a[1]

\* the items container o holds under attribute A: none when it has no A
ItemsUnder(o, A) == IF Has(o, A) THEN ValueOf(o, A).a ELSE <<>>

RECURSIVE ItemsOfAll(_, _)
ItemsOfAll(kids, A) ==
    IF kids = <<>> THEN <<>>
    ELSE ItemsUnder(Head(kids), A) \o ItemsOfAll(Tail(kids), A)

\* the document as call i left it
After(i) == IF i = Len(log) THEN heap[1] ELSE log[i + 1].before

\* C4: flatten(D, A) is the root's items under A followed by the items under
\* A of each immediate child that has A, in child order, grandchildren never
\* visited; when neither the root nor a child has A it is the empty sequence.
C4_FlattenRootThenChildren ==
    \A i \in 1..Len(log) :
        log[i].fn = "flatten" =>
            LET D == log[i].before
                A == log[i].args[1].s
            IN  /\ log[i].ret
                     = Arr(ItemsUnder(D, A)
                               \o ItemsOfAll(ItemsUnder(D, "children"), A))
                /\ (/\ ~Has(D, A)
                    /\ \A k \in 1..Len(ItemsUnder(D, "children")) :
                           ~Has(ItemsUnder(D, "children")[k], A))
                       => log[i].ret = Arr(<<>>)

\* flatten has run on a document whose root, whose first child and whose
\* grandchild all hold sounds, and returned the root's and the child's
C4_Witness ==
    \E i \in 1..Len(log) :
        /\ log[i].fn = "flatten" /\ log[i].args[1].s = "sounds"
        /\ Len(ItemsUnder(log[i].before, "sounds")) = 1
        /\ Len(ItemsUnder(log[i].before, "children")) >= 1
        /\ Len(ItemsUnder(ItemsUnder(log[i].before, "children")[1],
                          "sounds")) = 1
        /\ Has(ItemsUnder(log[i].before, "children")[1], "children")
        /\ Len(log[i].ret.a) = 2

\* the projection of field over the elements els, as summary r holds it
\* under key: absent when no field was asked for, else one slot per element
Projection(r, key, field, els) ==
    IF field.t = "undefined" THEN ~Has(r, key)
    ELSE /\ Has(r, key)
         /\ ValueOf(r, key).t = "array"
         /\ Len(ValueOf(r, key).a) = Len(els)
         /\ \A k \in 1..Len(els) :
                ValueOf(r, key).a[k] = IF Has(els[k], field.s)
                                       THEN ValueOf(els[k], field.s)
                                       ELSE Undef

\* C3: extract(D, A, idField, hashField).count is the length of
\* flatten(D, A), and id and hash, when asked for, have exactly count
\* entries, the k-th being the k-th flattened element's field, an absent
\* value where the element lacks the field.
C3_ExtractAligned ==
    \A i \in 1..Len(log) :
        log[i].fn = "extract" =>
            LET els == flatten(log[i].before, log[i].args[1].s).a
            IN  /\ log[i].outcome = "return"
                /\ Has(log[i].ret, "count")
                /\ ValueOf(log[i].ret, "count") = Num(Len(els))
                /\ Projection(log[i].ret, "id", log[i].args[2], els)
                /\ Projection(log[i].ret, "hash", log[i].args[3], els)

\* extract has projected both fields from two sounds, the first of which
\* lacks the id field and the second of which has it
C3_Witness ==
    \E i \in 1..Len(log) :
        /\ log[i].fn = "extract"
        /\ log[i].args[2] = Str("soundName") /\ log[i].args[3] = Str("md5")
        /\ ValueOf(log[i].ret, "count") = Num(2)
        /\ ValueOf(log[i].ret, "id").a[1] = Undef
        /\ ValueOf(log[i].ret, "id").a[2] = Str("pop")
        /\ ValueOf(log[i].ret, "hash").a[1] = Str("bb")

\* the walk rules of the specification: skip an entry that is no sequence;
\* walk into a sequence whose first entry is no string, not counting it;
\* else emit the first entry and, unless it is procDef, walk the rest
RECURSIVE PreorderOfEntries(_)
PreorderOfEntries(es) ==
    IF es = <<>> THEN <<>>
    ELSE IF Head(es).t # "array" THEN PreorderOfEntries(Tail(es))
    ELSE IF Head(es).a = <<>> \/ Head(es).a[1].t # "string"
         THEN PreorderOfEntries(Head(es).a) \o PreorderOfEntries(Tail(es))
    ELSE IF Head(es).a[1].s = "procDef"
         THEN <<Head(es).a[1]>> \o PreorderOfEntries(Tail(es))
    ELSE <<Head(es).a[1]>> \o PreorderOfEntries(Tail(Head(es).a))
             \o PreorderOfEntries(Tail(es))

\* C1: blocks(D).id is the preorder sequence of block names the walk rules
\* give for flatten(D, 'scripts'), duplicates kept, and count is its
\* length; the forever script yields forever, moveSteps, turnRight, count 3
\* and unique 3.
C1_BlocksIdIsPreorder ==
    \A i \in 1..Len(log) :
        log[i].fn = "blocks" =>
            LET forest == flatten(log[i].before, "scripts").a
            IN  /\ log[i].outcome = "return"
                /\ ValueOf(log[i].ret, "id") = Arr(PreorderOfEntries(forest))
                /\ ValueOf(log[i].ret, "count")
                       = Num(Len(PreorderOfEntries(forest)))
                /\ forest = <<ForeverScript>> =>
                       /\ ValueOf(log[i].ret, "id")
                              = Arr(<<Str("forever"), Str("moveSteps"),
                                      Str("turnRight")>>)
                       /\ ValueOf(log[i].ret, "count") = Num(3)
                       /\ ValueOf(log[i].ret, "unique") = Num(3)

\* blocks has walked the forever script, cut between the root and a child
\* after the procDef script: four names, the first of them procDef
C1_Witness ==
    \E i \in 1..Len(log) :
        /\ log[i].fn = "blocks"
        /\ ItemsUnder(log[i].before, "scripts") = <<ProcDefScript>>
        /\ Len(ItemsUnder(log[i].before, "children")) = 1
        /\ ItemsUnder(ItemsUnder(log[i].before, "children")[1], "scripts")
               = <<ForeverScript>>
        /\ ValueOf(log[i].ret, "count") = Num(4)
        /\ ValueOf(log[i].ret, "id").a[4] = Str("turnRight")

\* the forest with every sequence led by procDef cut down to that name
RECURSIVE StripProcDef(_)
StripProcDef(es) ==
    [k \in 1..Len(es) |->
        IF es[k].t # "array" THEN es[k]
        ELSE IF es[k].a # <<>> /\ es[k].a[1] = Str("procDef")
             THEN Arr(<<Str("procDef")>>)
             ELSE Arr(StripProcDef(es[k].a))]

\* the strings anywhere in a forest
RECURSIVE StringsIn(_)
StringsIn(es) ==
    UNION { IF es[k].t = "string" THEN {es[k].s}
            ELSE IF es[k].t = "array" THEN StringsIn(es[k].a)
            ELSE {} : k \in 1..Len(es) }

\* C2: of a sequence led by procDef the walk emits procDef and nothing
\* else: the names are those of the forest with every such sequence cut
\* down to procDef, so a name found only among a procDef's later entries is
\* not among them; the procDef script alone counts 1.
C2_ProcDefTruncates ==
    \A i \in 1..Len(log) :
        log[i].fn = "blocks" =>
            LET forest == flatten(log[i].before, "scripts").a
            IN  /\ ValueOf(log[i].ret, "id")
                       = Arr(walk(Arr(StripProcDef(forest))))
                /\ \A k \in 1..Len(ValueOf(log[i].ret, "id").a) :
                       ValueOf(log[i].ret, "id").a[k].s
                           \in StringsIn(StripProcDef(forest))
                /\ forest = <<ProcDefScript>> =>
                       /\ ValueOf(log[i].ret, "count") = Num(1)
                       /\ ValueOf(log[i].ret, "id") = Arr(<<Str("procDef")>>)

\* blocks has walked the procDef script alone, whose later entries hold the
\* sequence ["param1"], and counted one block
C2_Witness ==
    \E i \in 1..Len(log) :
        /\ log[i].fn = "blocks"
        /\ flatten(log[i].before, "scripts").a = <<ProcDefScript>>
        /\ "param1" \in StringsIn(<<ProcDefScript>>)
        /\ ValueOf(log[i].ret, "count") = Num(1)

\* the number of entries of S that are the string x
Occurrences(S, x) == Cardinality({j \in 1..Len(S) : S[j].s = x})

RECURSIVE SumOfValues(_)
SumOfValues(props) ==
    IF props = <<>> THEN 0
    ELSE Head(props).a[1].n + SumOfValues(Tail(props))

\* C9: frequency(S) has exactly one entry per distinct string of S and none
\* for a string not in S, inherited names included; each entry's value is
\* the number of occurrences of its string, and the values sum to len(S).
C9_FrequencyCounts ==
    \A i \in 1..Len(log) :
        log[i].fn = "frequency" =>
            LET S == log[i].before.a
                r == log[i].ret
            IN  /\ \A j \in 1..Len(S) : Has(r, S[j].s)
                /\ \A k \in 1..Len(r.a) :
                       /\ \E j \in 1..Len(S) : S[j].s = r.a[k].s
                       /\ \A m \in 1..Len(r.a) : r.a[m].s = r.a[k].s => m = k
                       /\ r.a[k].a[1] = Num(Occurrences(S, r.a[k].s))
                /\ \A x \in Terms \cup ObjectPrototypeKeys :
                       (\A j \in 1..Len(S) : S[j].s # x)
                           => GetProp(r, x) = Undef
                /\ SumOfValues(r.a) = Len(S)

\* frequency has tallied a list that names constructor once and another
\* string twice
C9_Witness ==
    \E i \in 1..Len(log) :
        /\ log[i].fn = "frequency"
        /\ Len(log[i].before.a) = 3
        /\ Has(log[i].ret, "constructor")
        /\ ValueOf(log[i].ret, "constructor") = Num(1)
        /\ Has(log[i].ret, "a") /\ ValueOf(log[i].ret, "a") = Num(2)

\* the distinct strings of S in the order of their first occurrence
RECURSIVE FirstOccurrences(_)
FirstOccurrences(S) ==
    IF S = <<>> THEN <<>>
    ELSE IF \E j \in 1..(Len(S) - 1) : S[j].s = S[Len(S)].s
         THEN FirstOccurrences(SubSeq(S, 1, Len(S) - 1))
         ELSE Append(FirstOccurrences(SubSeq(S, 1, Len(S) - 1)), S[Len(S)].s)

\* C10: the keys of frequency(S), as Object.keys enumerates them, are the
\* distinct strings of S in the order of their first occurrence, whatever
\* the strings are.
C10_KeysInFirstOccurrenceOrder ==
    \A i \in 1..Len(log) :
        log[i].fn = "frequency" =>
            ObjectKeys(log[i].ret) = FirstOccurrences(log[i].before.a)

\* whether the document's children can be walked as the data model has
\* them: no children, or a sequence of objects
ChildrenAsModelled(D) ==
    \/ ~Has(D, "children")
    \/ /\ ValueOf(D, "children").t = "array"
       /\ \A k \in 1..Len(ValueOf(D, "children").a) :
              ValueOf(D, "children").a[k].t = "object"

\* whether info.savedExtensions is absent: there is no info, or it has none
NoSavedExtensions(D) ==
    \/ ~Has(D, "info")
    \/ ValueOf(D, "info").t # "object"
    \/ ~Has(ValueOf(D, "info"), "savedExtensions")

NoExtensions == SetProp(SetProp(Obj(<<>>), "count", Num(0)), "id", Arr(<<>>))

\* C5: on every document in which info.savedExtensions is absent, a
\* document with no info at all included, extensions(D) raises no error and
\* returns {count: 0, id: []}, and so does the extension summary of
\* analyze(D).
C5_AbsentExtensionsNeverRaise ==
    \A i \in 1..Len(log) :
        NoSavedExtensions(log[i].before) =>
            /\ log[i].fn = "extensions" =>
                   log[i].outcome = "return" /\ log[i].ret = NoExtensions
            /\ (log[i].fn = "analyze" /\ ChildrenAsModelled(log[i].before)) =>
                   /\ log[i].outcome = "callback"
                   /\ ValueOf(log[i].ret, "extensions") = NoExtensions

NotMeta(p) == p.s # "_meta"

\* the document without its _meta field
WithoutMeta(D) == [D EXCEPT !.a = SelectSeq(@, NotMeta)]

MetaKeys ==
    <<"scripts", "variables", "lists", "comments", "sounds", "costumes",
      "sprites", "blocks", "extensions">>

\* C6: analyze hands its caller the same document instance it was given,
\* and the document after the call differs from the one before it only in
\* the value of _meta, added or overwritten: every other field of the root,
\* of its children and of their sequences is as it was.
C6_OnlyMetaChanges ==
    /\ Len(heap) = 1
    /\ \A i \in 1..Len(log) :
           log[i].fn = "analyze" =>
               /\ WithoutMeta(After(i)) = WithoutMeta(log[i].before)
               /\ log[i].outcome = "throw" => After(i) = log[i].before
               /\ log[i].outcome = "callback" =>
                      /\ log[i].doc = 1
                      /\ log[i].err = Null
                      /\ Has(After(i), "_meta")
                      /\ ValueOf(After(i), "_meta").t = "object"
                      /\ ObjectKeys(ValueOf(After(i), "_meta")) = MetaKeys

\* analyze has called back on a document that held a stale _meta, scripts
\* of its own and a sprite with scripts, whose _meta is now the summary
C6_Witness ==
    \E i \in 1..Len(log) :
        /\ log[i].fn = "analyze" /\ log[i].outcome = "callback"
        /\ Has(log[i].before, "_meta")
        /\ ValueOf(log[i].before, "_meta") = Str("stale")
        /\ Has(log[i].before, "scripts")
        /\ ItemsUnder(log[i].before, "children") = <<Sprite>>
        /\ ValueOf(ValueOf(ValueOf(After(i), "_meta"), "blocks"), "count")
               = Num(3)

\* C7: analyze called twice in a row on the same document does not throw,
\* and the second call's _meta equals the first call's (here on documents
\* whose children are as the data model has them).
C7_ReanalysisNeverThrows ==
    (/\ Len(log) = 2
     /\ log[1].fn = "analyze" /\ log[2].fn = "analyze"
     /\ ChildrenAsModelled(log[1].before)) =>
        /\ log[1].outcome = "callback"
        /\ log[2].outcome = "callback"
        /\ log[2].ret = log[1].ret

\* what does hold of the second call: it ends as the first did, with the
\* same _meta if the first one called back
ReanalysisEndsAlike ==
    (Len(log) = 2 /\ log[1].fn = "analyze" /\ log[2].fn = "analyze") =>
        /\ log[2].outcome = log[1].outcome
        /\ log[2].ret = log[1].ret

\* C8: on a document that cannot be traversed (children present but no
\* sequence of child objects) analyze reports a failure through the
\* callback's error argument, and does not report success.
C8_StructuralFailureReported ==
    \A i \in 1..Len(log) :
        (log[i].fn = "analyze" /\ ~ChildrenAsModelled(log[i].before)) =>
            /\ log[i].outcome = "callback"
            /\ log[i].err.t \notin {"null", "undefined"}

====
